---- MODULE Spec2Model ----
(***************************************************************************)
(* Lecture2/Logistic Regression.ipynb: logistic regression trained by      *)
(* full-batch gradient descent.                                            *)
(*                                                                         *)
(* Floats are fixed-point integers: the integer v stands for v / SCALE.    *)
(* The three IEEE specials numpy produces (inf, -inf, nan) are kept as     *)
(* reserved integers, since np.log(0) and np.exp overflow only warn.       *)
(* An ndarray is a record [err, shape, data]: shape <<>> is a scalar,      *)
(* <<n>> a vector, <<n, m>> a matrix, data is row-major; err # "" is the   *)
(* exception an operation raised, and it propagates like a raise does.     *)
(***************************************************************************)
EXTENDS Integers, Sequences, FiniteSets, TLC

\* ------------------------------------------------------------------------
\* float arithmetic
\* ------------------------------------------------------------------------

\* F(v) and F(u, v) with the arguments evaluated once, as Python evaluates the
\* arguments of a call before the call
Bind(v, F(_)) == CHOOSE r \in {F(x) : x \in {v}} : TRUE

Bind2(u, v, F(_, _)) == CHOOSE r \in {F(x, y) : x \in {u}, y \in {v}} : TRUE

\* the sequence <<F(lo), ..., F(hi)>>, every element evaluated
RECURSIVE TabRange(_, _, _)
TabRange(F(_), lo, hi) ==
  IF lo > hi THEN <<>>
  ELSE IF lo = hi THEN <<F(lo)>>
  ELSE TabRange(F, lo, (lo + hi) \div 2) \o TabRange(F, ((lo + hi) \div 2) + 1, hi)

Tab(F(_), n) == TabRange(F, 1, n)

SCALE == 10 ^ 3

PInf == 2 ^ 30

NInf == -PInf

NaN == PInf + 1

TaylorTerms == 2 ^ 3

AtanhTerms == 2 ^ 2

Num(n) == n * SCALE

IsInf(a) == a = PInf \/ a = NInf

Sgn(a) == IF a > 0 THEN 1 ELSE IF a < 0 THEN -1 ELSE 0

Abs(a) == IF a < 0 THEN -a ELSE a

Max(a, b) == IF a >= b THEN a ELSE b

\* a / b for integers, b > 0, rounded to nearest (ties away from zero)
RDiv(a, b) ==
  IF a >= 0 THEN (2 * a + b) \div (2 * b) ELSE -((2 * (-a) + b) \div (2 * b))

FNeg(a) ==
  IF a = NaN THEN NaN ELSE IF a = PInf THEN NInf ELSE IF a = NInf THEN PInf ELSE -a

FAdd(a, b) ==
  IF a = NaN \/ b = NaN THEN NaN
  ELSE IF IsInf(a) THEN (IF IsInf(b) /\ a # b THEN NaN ELSE a)
  ELSE IF IsInf(b) THEN b
  ELSE a + b

FSub(a, b) == FAdd(a, FNeg(b))

FMul(a, b) ==
  IF a = NaN \/ b = NaN THEN NaN
  ELSE IF IsInf(a) \/ IsInf(b)
    THEN (IF a = 0 \/ b = 0 THEN NaN
          ELSE IF Sgn(a) * Sgn(b) > 0 THEN PInf ELSE NInf)
  ELSE RDiv(a * b, SCALE)

FDiv(a, b) ==
  IF a = NaN \/ b = NaN THEN NaN
  ELSE IF IsInf(a)
    THEN (IF IsInf(b) THEN NaN
          ELSE IF Sgn(a) * (IF b < 0 THEN -1 ELSE 1) > 0 THEN PInf ELSE NInf)
  ELSE IF IsInf(b) THEN 0
  ELSE IF b = 0
    THEN (IF a = 0 THEN NaN ELSE IF a > 0 THEN PInf ELSE NInf)
  ELSE Sgn(b) * RDiv(a * SCALE, Abs(b))

\* e^(-f) for 0 <= f <= SCALE: 1 - f/1 (1 - f/2 (1 - f/3 ( ... )))
RECURSIVE ExpSeries(_, _)
ExpSeries(f, k) ==
  IF k > TaylorTerms THEN SCALE
  ELSE LET F(rest) == SCALE - RDiv(f * rest, k * SCALE)
       IN  Bind(ExpSeries(f, k + 1), F)

\* e^(-a) for a >= 0
RECURSIVE ExpNeg(_)
ExpNeg(a) ==
  IF a <= SCALE THEN ExpSeries(a, 1)
  ELSE LET F(r) == IF r = 0 THEN 0 ELSE RDiv(r * ExpSeries(SCALE, 1), SCALE)
       IN  Bind(ExpNeg(a - SCALE), F)

\* np.exp: overflows to inf, underflows to 0
FExp(x) ==
  IF x = NaN THEN NaN
  ELSE IF x = PInf THEN PInf
  ELSE IF x = NInf THEN 0
  ELSE IF x <= 0 THEN ExpNeg(-x)
  ELSE LET F(e) == IF e = 0 THEN PInf ELSE RDiv(SCALE * SCALE, e)
       IN  Bind(ExpNeg(x), F)

\* u + u^3/3 + u^5/5 + ... , the series of atanh(u)
RECURSIVE AtanhSeries(_, _, _)
AtanhSeries(u, pow, k) ==
  IF k > AtanhTerms THEN 0
  ELSE LET F(next) == RDiv(pow, 2 * k - 1) + AtanhSeries(u, next, k + 1)
       IN  Bind(RDiv(RDiv(pow * u, SCALE) * u, SCALE), F)

\* ln(m) for SCALE/2 <= m <= SCALE: 2 atanh((m - 1) / (m + 1))
LnUnit(m) ==
  LET F(u) == 2 * AtanhSeries(u, u, 1)
  IN  Bind(Sgn(m - SCALE) * RDiv(Abs(m - SCALE) * SCALE, m + SCALE), F)

\* ln(p) for p > 0
RECURSIVE LnPos(_)
LnPos(p) ==
  IF 2 * p < SCALE THEN LnPos(2 * p) + LnUnit(SCALE \div 2)
  ELSE IF p > SCALE THEN LnPos(RDiv(p, 2)) - LnUnit(SCALE \div 2)
  ELSE LnUnit(p)

\* np.log: log(0) is -inf, log of a negative is nan
FLog(p) ==
  IF p = NaN \/ p = NInf THEN NaN
  ELSE IF p = PInf THEN PInf
  ELSE IF p < 0 THEN NaN
  ELSE IF p = 0 THEN NInf
  ELSE LnPos(p)

\* np.sign
FSign(a) == IF a = NaN THEN NaN ELSE Num(Sgn(a))

\* np.abs
FAbs(a) == IF a = NaN THEN NaN ELSE IF IsInf(a) THEN PInf ELSE Abs(a)

\* np.round: to the nearest integer, a tie to the even one
FRound(a) ==
  IF a = NaN \/ IsInf(a) THEN a
  ELSE LET q == a \div SCALE
           r == a - q * SCALE
       IN  IF 2 * r < SCALE THEN Num(q)
           ELSE IF 2 * r > SCALE THEN Num(q + 1)
           ELSE IF q % 2 = 0 THEN Num(q) ELSE Num(q + 1)

\* integer square root
RECURSIVE ISqrt(_, _, _)
ISqrt(n, lo, hi) ==
  IF lo >= hi THEN lo
  ELSE LET mid == (lo + hi + 1) \div 2
       IN  IF mid * mid <= n THEN ISqrt(n, mid, hi) ELSE ISqrt(n, lo, mid - 1)

FSqrt(a) ==
  IF a = NaN \/ a = NInf THEN NaN
  ELSE IF a = PInf THEN PInf
  ELSE IF a < 0 THEN NaN
  ELSE ISqrt(a * SCALE, 0, Max(a, SCALE))

\* == on two floats, as a bool counted 1 or 0
FEq(a, b) == IF a = NaN \/ b = NaN THEN 0 ELSE IF a = b THEN Num(1) ELSE 0

\* ------------------------------------------------------------------------
\* numpy arrays
\* ------------------------------------------------------------------------

Arr(shape, data) == [err |-> "", shape |-> shape, data |-> data]

Raise(e) == [err |-> e, shape |-> <<>>, data |-> <<>>]

Scalar(v) == Arr(<<>>, <<v>>)

Vec(d) == Arr(<<Len(d)>>, d)

Failed(a) == a.err # ""

Rank(a) == Len(a.shape)

\* shape as (rows, columns), numpy's broadcasting view of a scalar or vector
Pad2(shape) ==
  IF Len(shape) = 0 THEN <<1, 1>>
  ELSE IF Len(shape) = 1 THEN <<1, shape[1]>>
  ELSE shape

\* ndarray.size
SizeOf(a) == Len(a.data)

\* elementwise ufunc
Map1(Op(_), arg) ==
  LET F(a) == IF Failed(a) THEN a
              ELSE Arr(a.shape, Tab(LAMBDA k : Op(a.data[k]), Len(a.data)))
  IN  Bind(arg, F)

\* the shape two operands broadcast to, <<-1>> when they do not
BroadcastShape(sa, sb) ==
  LET pa == Pad2(sa)
      pb == Pad2(sb)
      ok == \A k \in 1..2 : pa[k] = pb[k] \/ pa[k] = 1 \/ pb[k] = 1
      r1 == IF pa[1] = 1 THEN pb[1] ELSE pa[1]
      r2 == IF pa[2] = 1 THEN pb[2] ELSE pa[2]
      rank == Max(Len(sa), Len(sb))
  IN  IF ~ok THEN <<-1>>
      ELSE IF rank = 0 THEN <<>>
      ELSE IF rank = 1 THEN <<r2>>
      ELSE <<r1, r2>>

\* the element of x, viewed with shape px, that broadcasts to place (i, j)
At(x, px, i, j) ==
  x.data[(IF px[1] = 1 THEN 0 ELSE i) * px[2] + (IF px[2] = 1 THEN 0 ELSE j) + 1]

\* elementwise binary operation with broadcasting
BinOp(Op(_, _), left, right) ==
  LET F(a, b) ==
        IF Failed(a) THEN a
        ELSE IF Failed(b) THEN b
        ELSE LET G(shape) ==
                   IF shape = <<-1>> THEN Raise("ValueError")
                   ELSE Arr(shape,
                            Tab(LAMBDA k :
                                  Op(At(a, Pad2(a.shape), (k - 1) \div Pad2(shape)[2],
                                        (k - 1) % Pad2(shape)[2]),
                                     At(b, Pad2(b.shape), (k - 1) \div Pad2(shape)[2],
                                        (k - 1) % Pad2(shape)[2])),
                                Pad2(shape)[1] * Pad2(shape)[2]))
             IN  Bind(BroadcastShape(a.shape, b.shape), G)
  IN  Bind2(left, right, F)

Add(a, b) == BinOp(FAdd, a, b)

Sub(a, b) == BinOp(FSub, a, b)

Mul(a, b) == BinOp(FMul, a, b)

Div(a, b) == BinOp(FDiv, a, b)

Eq(a, b) == BinOp(FEq, a, b)

Neg(a) == Map1(FNeg, a)

\* a += b: a Python number or numpy scalar is rebound to a + b, an ndarray
\* is added to in place and keeps its shape, or the statement raises
IAdd(left, right) ==
  LET F(a, r) ==
        IF Failed(a) THEN a
        ELSE IF Rank(a) = 0 \/ Failed(r) THEN r
        ELSE IF r.shape # a.shape THEN Raise("ValueError")
        ELSE r
  IN  Bind2(left, Add(left, right), F)

\* f[1] + ... + f[n], added in order
RECURSIVE SumTo(_, _)
SumTo(f, n) ==
  IF n = 0 THEN 0
  ELSE LET F(before) == FAdd(before, f[n]) IN Bind(SumTo(f, n - 1), F)

\* np.dot of two arrays of rank 1 or 2
MatMul(a, b) ==
  LET n == IF Rank(a) = 1 THEN 1 ELSE a.shape[1]
      inner == IF Rank(a) = 1 THEN a.shape[1] ELSE a.shape[2]
      m == IF Rank(b) = 1 THEN 1 ELSE b.shape[2]
      shape == (IF Rank(a) = 1 THEN <<>> ELSE <<n>>)
               \o (IF Rank(b) = 1 THEN <<>> ELSE <<m>>)
  IN  IF inner # b.shape[1] THEN Raise("ValueError")
      ELSE Arr(shape,
               Tab(LAMBDA k :
                     SumTo(Tab(LAMBDA t :
                                 FMul(a.data[((k - 1) \div m) * inner + t],
                                      b.data[(t - 1) * m + ((k - 1) % m) + 1]),
                               inner),
                           inner),
                   n * m))

\* np.dot: a scalar operand multiplies
Dot(left, right) ==
  LET F(a, b) ==
        IF Failed(a) THEN a
        ELSE IF Failed(b) THEN b
        ELSE IF Rank(a) = 0 \/ Rank(b) = 0 THEN Mul(a, b)
        ELSE MatMul(a, b)
  IN  Bind2(left, right, F)

\* ndarray.T
Transpose(arg) ==
  LET F(a) ==
        IF Failed(a) \/ Rank(a) < 2 THEN a
        ELSE Arr(<<a.shape[2], a.shape[1]>>,
                 Tab(LAMBDA k :
                       a.data[((k - 1) % a.shape[1]) * a.shape[2]
                              + ((k - 1) \div a.shape[1]) + 1],
                     a.shape[1] * a.shape[2]))
  IN  Bind(arg, F)

\* ndarray.reshape
Reshape(arg, shape) ==
  LET F(a) ==
        IF Failed(a) THEN a
        ELSE IF Pad2(shape)[1] * Pad2(shape)[2] # SizeOf(a) THEN Raise("ValueError")
        ELSE Arr(shape, a.data)
  IN  Bind(arg, F)

\* a[i] for i >= 0
Index(arg, i) ==
  LET F(a) ==
        IF Failed(a) THEN a
        ELSE IF Rank(a) = 0 \/ i >= a.shape[1] THEN Raise("IndexError")
        ELSE IF Rank(a) = 1 THEN Scalar(a.data[i + 1])
        ELSE Arr(<<a.shape[2]>>, SubSeq(a.data, i * a.shape[2] + 1, (i + 1) * a.shape[2]))
  IN  Bind(arg, F)

\* np.sum
Sum(arg) ==
  LET F(a) == IF Failed(a) THEN a ELSE Scalar(SumTo(a.data, Len(a.data)))
  IN  Bind(arg, F)

\* np.linalg.norm: the root of the sum of the squares
Norm(arg) ==
  LET F(a) ==
        IF Failed(a) THEN a
        ELSE Scalar(FSqrt(SumTo(Tab(LAMBDA k : FMul(a.data[k], a.data[k]), Len(a.data)),
                                Len(a.data))))
  IN  Bind(arg, F)

\* ------------------------------------------------------------------------
\* the notebook's functions (cell 6)
\* ------------------------------------------------------------------------

\* norm=None
None == "none"

\* 1 / (1 + np.exp(-np.dot(X, w)))
sigmoid(X, w) ==
  Div(Scalar(Num(1)), Add(Scalar(Num(1)), Map1(FExp, Neg(Dot(X, w)))))

\* variant: l1 adds lamb * w, the sign is not taken
RegTermL1NoSign(w, norm, lamb) ==
  IF norm = "l1" THEN IAdd(Scalar(0), Mul(lamb, w))
  ELSE IF norm = "l2" THEN IAdd(Scalar(0), Mul(Mul(Scalar(Num(2)), lamb), w))
  ELSE Scalar(0)

\* variant: l2 takes a lamb of 0 for a lamb that was not given, and uses 1
RegTermDefaultLamb(w, norm, lamb) ==
  IF norm = "l1" THEN IAdd(Scalar(0), Mul(lamb, Map1(FSign, w)))
  ELSE IF norm = "l2"
    THEN IAdd(Scalar(0),
              Mul(Mul(Scalar(Num(2)),
                      IF lamb = Scalar(0) THEN Scalar(Num(1)) ELSE lamb),
                  w))
  ELSE Scalar(0)

\* grad after the two regularization branches
RegTerm(w, norm, lamb) ==
  LET grad0 == Scalar(0)
      grad1 == IF norm = "l1" THEN IAdd(grad0, Mul(lamb, Map1(FSign, w)))
               ELSE grad0
  IN  IF norm = "l2" THEN IAdd(grad1, Mul(Mul(Scalar(Num(2)), lamb), w))
      ELSE grad1

\* the unregularized term of a single point
PointTerm(X, y, w) ==
  Neg(Reshape(Mul(Sub(y, sigmoid(X, w)), X), <<SizeOf(w), 1>>))

\* the unregularized term of a batch
BatchTerm(X, y, w) ==
  Div(Neg(Dot(Transpose(X), Sub(y, sigmoid(X, w)))), Scalar(Num(SizeOf(y))))

gradient(X, y, w, onept, norm, lamb) ==
  LET grad == RegTerm(w, norm, lamb)
  IN  IF onept THEN IAdd(grad, PointTerm(X, y, w))
      ELSE IAdd(grad, BatchTerm(X, y, w))

\* X.shape[0]; a scalar has the empty shape tuple
Shape0(X) ==
  IF Failed(X) THEN X
  ELSE IF Rank(X) = 0 THEN Raise("IndexError")
  ELSE Scalar(X.shape[1])

\* the loop of loss: sumcost after rows 0 .. n-1
RECURSIVE SumCost(_, _, _, _)
SumCost(X, y, w, n) ==
  IF n = 0 THEN Scalar(0)
  ELSE LET Row(before) ==
             IF Failed(before) THEN before
             ELSE IAdd(before,
                       Add(Mul(Index(y, n - 1),
                               Map1(FLog, sigmoid(Index(X, n - 1), w))),
                           Mul(Sub(Scalar(Num(1)), Index(y, n - 1)),
                               Map1(FLog, Sub(Scalar(Num(1)),
                                              sigmoid(Index(X, n - 1), w))))))
       IN  Bind(SumCost(X, y, w, n - 1), Row)

\* normcost
NormCost(w, norm, lamb) ==
  IF norm = "l2" THEN Mul(lamb, Mul(Norm(w), Norm(w)))
  ELSE IF norm = "l1" THEN Mul(lamb, Sum(Map1(FAbs, w)))
  ELSE Scalar(0)

loss(X, y, w, norm, lamb) ==
  LET F(rows) ==
        LET G(sumcost, normcost) ==
              IF Failed(sumcost) THEN sumcost
              ELSE IF Failed(normcost) THEN normcost
              \* sumcost is still the int 0 when the loop ran over no row
              ELSE IF rows.data[1] = 0 /\ SizeOf(y) = 0
                THEN Raise("ZeroDivisionError")
              ELSE Sub(normcost, Div(sumcost, Scalar(Num(SizeOf(y)))))
        IN  IF Failed(rows) THEN rows
            ELSE Bind2(SumCost(X, y, w, rows.data[1]), NormCost(w, norm, lamb), G)
  IN  Bind(Shape0(X), F)

\* sum([results[i] == y[i] for i in range(lo, hi)]), the rows taken in
\* order (the range is halved to keep the evaluation shallow)
RECURSIVE Hits(_, _, _, _)
Hits(results, y, lo, hi) ==
  IF lo >= hi THEN Scalar(0)
  ELSE IF hi = lo + 1 THEN Eq(Index(results, lo), Index(y, lo))
  ELSE LET F(left) ==
             IF Failed(left) THEN left
             ELSE Add(left, Hits(results, y, (lo + hi) \div 2, hi))
       IN  Bind(Hits(results, y, lo, (lo + hi) \div 2), F)

accuracy(X, y, w) ==
  LET F(results) ==
        IF Failed(results) THEN results
        \* sum([]) is the int 0
        ELSE IF SizeOf(y) = 0 THEN Raise("ZeroDivisionError")
        ELSE Div(Hits(results, y, 0, SizeOf(y)), Scalar(Num(SizeOf(y))))
  IN  Bind(Map1(FRound, sigmoid(X, w)), F)

\* ------------------------------------------------------------------------
\* indexing and slicing
\* ------------------------------------------------------------------------

\* a Python slice bound on a sequence of length n: negative counts from the end
SliceBound(k, n) ==
  IF k < 0 THEN Max(n + k, 0) ELSE IF k > n THEN n ELSE k

\* s[:stop]
SliceTo(s, stop) == SubSeq(s, 1, SliceBound(stop, Len(s)))

\* s[start:]
SliceFrom(s, start) == SubSeq(s, SliceBound(start, Len(s)) + 1, Len(s))

\* np.arange(n)
Arange(n) == Tab(LAMBDA k : k - 1, n)

\* a[idx, :] for a matrix a and a sequence idx of row numbers
Rows(arg, rows) ==
  LET F(a, idx) ==
        IF Failed(a) THEN a
        ELSE Arr(<<Len(idx), a.shape[2]>>,
                 Tab(LAMBDA k :
                       a.data[idx[((k - 1) \div a.shape[2]) + 1] * a.shape[2]
                              + ((k - 1) % a.shape[2]) + 1],
                     Len(idx) * a.shape[2]))
  IN  Bind2(arg, rows, F)

\* a[:, from:]
ColsFrom(arg, from) ==
  LET F(a) ==
        IF Failed(a) THEN a
        ELSE LET G(c) ==
                   Arr(<<a.shape[1], c>>,
                       Tab(LAMBDA k :
                             a.data[((k - 1) \div c) * a.shape[2] + (a.shape[2] - c)
                                    + ((k - 1) % c) + 1],
                           a.shape[1] * c))
             IN  Bind(a.shape[2] - SliceBound(from, a.shape[2]), G)
  IN  Bind(arg, F)

\* a[:, j]
Col(arg, j) ==
  LET F(a) ==
        IF Failed(a) THEN a
        ELSE IF j >= a.shape[2] THEN Raise("IndexError")
        ELSE Arr(<<a.shape[1]>>,
                 Tab(LAMBDA k : a.data[(k - 1) * a.shape[2] + j + 1], a.shape[1]))
  IN  Bind(arg, F)

\* a[:stop, from:]
Block(a, stop, from) ==
  IF Failed(a) THEN a
  ELSE ColsFrom(Rows(a, SliceTo(Arange(a.shape[1]), stop)), from)

\* a[:stop, j]
BlockCol(a, stop, j) ==
  IF Failed(a) THEN a
  ELSE Col(Rows(a, SliceTo(Arange(a.shape[1]), stop)), j)

\* ------------------------------------------------------------------------
\* the notebook kernel: its namespace, the cell being run, what it printed
\* ------------------------------------------------------------------------

VARIABLES env, shadow, call

vars == <<env, shadow, call>>

\* a name that no cell has bound yet
Undef == Raise("NameError")

ValSize == 1000

SmallSize == 50

Epsilon8 == 50

NumIterations8 == 300

Epsilon13 == 50

NumIterations13 == 500

\* the state of a fresh kernel; seed is what the random generator will draw
Fresh(seed) ==
  [pc |-> "c3", rng |-> seed, iter |-> 0, errors |-> <<>>, out |-> <<>>,
   data |-> Undef, shuffle |-> <<>>, data_train |-> Undef, data_val |-> Undef,
   X_train |-> Undef, Y_train |-> Undef, X_val |-> Undef, Y_val |-> Undef,
   X_train_small |-> Undef, Y_train_small |-> Undef,
   theta |-> Undef, diff |-> Undef, i |-> 0, epsilon |-> 0, num_iterations |-> 0,
   losses |-> <<>>, train_accuracies |-> <<>>, validation_accuracies |-> <<>>,
   test_accuracies |-> <<>>,
   \* bookkeeping: how many training runs began, how many times the current
   \* theta was updated, the update count each list's last entry was computed
   \* at, the run that created each list, the series handed to plt.plot
   run |-> 0, wver |-> 0,
   ver |-> [losses |-> 0, train_accuracies |-> 0, validation_accuracies |-> 0,
            test_accuracies |-> 0],
   owner |-> [losses |-> 0, train_accuracies |-> 0, validation_accuracies |-> 0,
              test_accuracies |-> 0],
   plots |-> <<>>]

\* an exception ends the cell; the next cell can still be run
Abort(e, cell, exc, next) ==
  [e EXCEPT !.pc = next, !.errors = Append(@, <<cell, exc>>)]

\* a list of floats holds the value of the scalar appended
ToFloat(a) == a.data[1]

\* np.random.shuffle of arange(n)
Permutation(n, seed) ==
  Tab(LAMBDA k : IF seed.rev THEN n - 1 - ((k - 1 + seed.rot) % n)
                 ELSE (k - 1 + seed.rot) % n,
      n)

\* np.random.normal(0, 0.1, d): the generator's next draw
Normal(e, d) == Vec(SubSeq(Head(e.rng.normal), 1, d))

\* cell 3: the csv file as a matrix of floats
Cell3(e, file) == [e EXCEPT !.pc = "c4", !.data = file]

\* variant: the validation rows are the last ValSize rows of the file, not
\* of the shuffle
Cell4Unshuffled(e) ==
  LET Split(shuffle) ==
        LET Assign(data_train, data_val) ==
              [e EXCEPT !.pc = "c8", !.shuffle = shuffle,
                        !.data_train = data_train, !.data_val = data_val,
                        !.X_train = ColsFrom(data_train, 1),
                        !.Y_train = Col(data_train, 0),
                        !.X_val = ColsFrom(data_val, 1),
                        !.Y_val = Col(data_val, 0)]
        IN  Bind2(Rows(e.data, SliceTo(shuffle, -ValSize)),
                  Rows(e.data, SliceFrom(Tab(LAMBDA k : k - 1, e.data.shape[1]),
                                         -ValSize)),
                  Assign)
  IN  Bind(Permutation(e.data.shape[1], e.rng.shuffle), Split)

\* cell 4: shuffle the row numbers, hold out the last ValSize of them
Cell4(e) ==
  LET Split(shuffle) ==
        LET Assign(data_train, data_val) ==
              [e EXCEPT !.pc = "c8", !.shuffle = shuffle,
                        !.data_train = data_train, !.data_val = data_val,
                        !.X_train = ColsFrom(data_train, 1),
                        !.Y_train = Col(data_train, 0),
                        !.X_val = ColsFrom(data_val, 1),
                        !.Y_val = Col(data_val, 0),
                        !.out = Append(@, Vec(<<data_train.shape[1],
                                                data_val.shape[1]>>))]
        IN  Bind2(Rows(e.data, SliceTo(shuffle, -ValSize)),
                  Rows(e.data, SliceFrom(shuffle, -ValSize)), Assign)
  IN  Bind(Permutation(e.data.shape[1], e.rng.shuffle), Split)

\* one statement "name.append(value)" of a training loop, or the exception
Record(e, cell, name, value, next, after) ==
  LET F(v) ==
        IF Failed(v) THEN Abort(e, cell, v.err, after)
        ELSE [e EXCEPT !.pc = next, ![name] = Append(@, ToFloat(v)),
                       !.ver[name] = e.wver]
  IN  Bind(value, F)

\* variant: the gradient is taken on the validation set
Cell8DiffOnVal(e) ==
  LET F(diff) ==
        IF Failed(diff) THEN Abort(e, "c8", diff.err, "c9")
        ELSE [e EXCEPT !.pc = "c8_theta", !.diff = diff]
  IN  Bind(Mul(Scalar(e.epsilon),
               gradient(e.X_val, e.Y_val, e.theta, FALSE, None, Scalar(0))),
           F)

\* variant: the loop goes on to record without updating theta
Cell8ThetaSkipped(e) == [e EXCEPT !.pc = "c8_loss"]

\* variant: theta moves up the gradient
Cell8ThetaAscent(e) ==
  LET F(theta) ==
        IF Failed(theta) THEN Abort(e, "c8", theta.err, "c9")
        ELSE [e EXCEPT !.pc = "c8_loss", !.theta = theta, !.wver = @ + 1]
  IN  Bind(Add(e.theta, e.diff), F)

\* variant: the loop ends as soon as the loss no longer falls
Cell13ForConverged(e) ==
  IF /\ e.iter < e.num_iterations
     /\ ~(Len(e.losses) >= 2 /\ e.losses[Len(e.losses)] >= e.losses[Len(e.losses) - 1])
  THEN [e EXCEPT !.pc = "c13_diff", !.i = e.iter, !.iter = @ + 1]
  ELSE [e EXCEPT !.pc = "c14"]

\* cell 8: a training run on the training set
Cell8Init(e) ==
  [e EXCEPT !.pc = "c8_for", !.iter = 0,
            !.theta = Normal(e, e.X_train.shape[2]),
            !.rng.normal = Tail(@),
            !.losses = <<>>, !.train_accuracies = <<>>,
            !.validation_accuracies = <<>>,
            !.epsilon = Epsilon8, !.num_iterations = NumIterations8,
            !.run = @ + 1, !.wver = 0,
            !.owner.losses = e.run + 1, !.owner.train_accuracies = e.run + 1,
            !.owner.validation_accuracies = e.run + 1]

Cell8For(e) ==
  IF e.iter < e.num_iterations
  THEN [e EXCEPT !.pc = "c8_diff", !.i = e.iter, !.iter = @ + 1]
  ELSE [e EXCEPT !.pc = "c9"]

Cell8Diff(e) ==
  LET F(diff) ==
        IF Failed(diff) THEN Abort(e, "c8", diff.err, "c9")
        ELSE [e EXCEPT !.pc = "c8_theta", !.diff = diff]
  IN  Bind(Mul(Scalar(e.epsilon),
               gradient(e.X_train, e.Y_train, e.theta, FALSE, None, Scalar(0))),
           F)

Cell8Theta(e) ==
  LET F(theta) ==
        IF Failed(theta) THEN Abort(e, "c8", theta.err, "c9")
        ELSE [e EXCEPT !.pc = "c8_loss", !.theta = theta, !.wver = @ + 1]
  IN  Bind(Sub(e.theta, e.diff), F)

Cell8Loss(e) ==
  Record(e, "c8", "losses", loss(e.X_train, e.Y_train, e.theta, None, Scalar(0)),
         "c8_tacc", "c9")

Cell8TrainAcc(e) ==
  Record(e, "c8", "train_accuracies", accuracy(e.X_train, e.Y_train, e.theta),
         "c8_vacc", "c9")

Cell8ValAcc(e) ==
  Record(e, "c8", "validation_accuracies", accuracy(e.X_val, e.Y_val, e.theta),
         "c8_for", "c9")

\* plt.plot(np.arange(num_iterations), series): raises when the lengths differ
RECURSIVE PlotAll(_, _, _)
PlotAll(e, cell, names) ==
  IF names = <<>> THEN e
  ELSE LET F(plot) ==
             IF plot.x # plot.y
             THEN [e EXCEPT !.plots = Append(@, plot),
                            !.errors = Append(@, <<cell, "ValueError">>)]
             ELSE PlotAll([e EXCEPT !.plots = Append(@, plot)], cell, Tail(names))
       IN  Bind([cell |-> cell, series |-> Head(names), x |-> e.num_iterations,
                 y |-> Len(e[Head(names)]), owner |-> e.owner[Head(names)],
                 run |-> e.run],
                F)

\* print(value), or the exception of computing it
Show(e, cell, value, next) ==
  LET F(v) ==
        IF Failed(v) THEN Abort(e, cell, v.err, next)
        ELSE [e EXCEPT !.pc = next, !.out = Append(@, v)]
  IN  Bind(value, F)

\* cell 9: plot the three series of the run, print the training accuracy
Cell9(e) ==
  LET F(p) ==
        IF Len(p.errors) > Len(e.errors) THEN [p EXCEPT !.pc = "c10"]
        ELSE Show(p, "c9", accuracy(e.X_train, e.Y_train, e.theta), "c10")
  IN  Bind(PlotAll(e, "c9", <<"losses", "train_accuracies", "validation_accuracies">>),
           F)

\* cell 10
Cell10(e) == Show(e, "c10", accuracy(e.X_val, e.Y_val, e.theta), "c12")

\* cell 12: the first SmallSize training rows
Cell12(e) ==
  [e EXCEPT !.pc = "c13",
            !.X_train_small = Block(e.data_train, SmallSize, 1),
            !.Y_train_small = BlockCol(e.data_train, SmallSize, 0)]

\* cell 13: a training run on the small training set
Cell13Init(e) ==
  [e EXCEPT !.pc = "c13_for", !.iter = 0,
            !.theta = Normal(e, e.X_train_small.shape[2]),
            !.rng.normal = Tail(@),
            !.losses = <<>>, !.train_accuracies = <<>>, !.test_accuracies = <<>>,
            !.epsilon = Epsilon13, !.num_iterations = NumIterations13,
            !.run = @ + 1, !.wver = 0,
            !.owner.losses = e.run + 1, !.owner.train_accuracies = e.run + 1,
            !.owner.test_accuracies = e.run + 1]

Cell13For(e) ==
  IF e.iter < e.num_iterations
  THEN [e EXCEPT !.pc = "c13_diff", !.i = e.iter, !.iter = @ + 1]
  ELSE [e EXCEPT !.pc = "c14"]

Cell13Diff(e) ==
  LET F(diff) ==
        IF Failed(diff) THEN Abort(e, "c13", diff.err, "c14")
        ELSE [e EXCEPT !.pc = "c13_theta", !.diff = diff]
  IN  Bind(Mul(Scalar(e.epsilon),
               gradient(e.X_train_small, e.Y_train_small, e.theta, FALSE, None, Scalar(0))),
           F)

Cell13Theta(e) ==
  LET F(theta) ==
        IF Failed(theta) THEN Abort(e, "c13", theta.err, "c14")
        ELSE [e EXCEPT !.pc = "c13_loss", !.theta = theta, !.wver = @ + 1]
  IN  Bind(Sub(e.theta, e.diff), F)

Cell13Loss(e) ==
  Record(e, "c13", "losses",
         loss(e.X_train_small, e.Y_train_small, e.theta, None, Scalar(0)),
         "c13_tacc", "c14")

Cell13TrainAcc(e) ==
  Record(e, "c13", "train_accuracies",
         accuracy(e.X_train_small, e.Y_train_small, e.theta), "c13_teacc", "c14")

Cell13TestAcc(e) ==
  Record(e, "c13", "test_accuracies", accuracy(e.X_val, e.Y_val, e.theta),
         "c13_for", "c14")

\* cell 14: plot losses, train_accuracies and validation_accuracies
Cell14(e) ==
  LET F(p) ==
        IF Len(p.errors) > Len(e.errors) THEN [p EXCEPT !.pc = "c15"]
        ELSE Show(p, "c14", accuracy(e.X_train_small, e.Y_train_small, e.theta), "c15")
  IN  Bind(PlotAll(e, "c14", <<"losses", "train_accuracies", "validation_accuracies">>),
           F)

\* cell 15
Cell15(e) == Show(e, "c15", accuracy(e.X_val, e.Y_val, e.theta), "c17")

\* cell 17: norms = ['l1, 'l2''] does not compile, so no statement of the
\* cell runs
Cell17(e) == Abort(e, "c17", "SyntaxError", "c19")

\* cell 19
Cell19(e) == Show(e, "c19", e.theta, "end")

\* ------------------------------------------------------------------------
\* running the notebook, cell after cell
\* ------------------------------------------------------------------------

\* The same cells run in two kernels that were seeded alike: env, and shadow,
\* whose validation rows may differ. Both take each step.
Step(F(_), label) ==
  /\ env' = F(env)
  /\ shadow' = IF shadow.pc = label THEN F(shadow) ELSE shadow
  /\ UNCHANGED call

\* what np.random will draw: the permutation of the shuffle and the normal
\* samples (mean 0, deviation 0.1) of the two theta initialisations
Seeds ==
  { [shuffle |-> [rot |-> 0, rev |-> FALSE], normal |-> <<<<-400, 100>>, <<100, -200>>>>],
    [shuffle |-> [rot |-> 7, rev |-> FALSE], normal |-> <<<<0, 0>>, <<-100, 100>>>>],
    [shuffle |-> [rot |-> 3, rev |-> TRUE], normal |-> <<<<-100, 200>>, <<-250, -50>>>>] }

\* rows of (label, features...)
Train1 == Arr(<<3, 2>>, <<1000, 2000, 0, -1000, 1000, 500>>)

Val1a == Arr(<<2, 2>>, <<1000, 1000, 0, 300>>)

Val1b == Arr(<<1, 2>>, <<0, 2000>>)

Train2 == Arr(<<2, 3>>, <<0, 1000, -1000, 1000, -500, 2000>>)

Val2a == Arr(<<1, 3>>, <<1000, 500, 500>>)

Val2b == Arr(<<2, 3>>, <<0, -1000, 1000, 1000, 2000, 0>>)

Datasets ==
  { [train |-> Train1, val |-> Val1a, other |-> Val1b],
    [train |-> Train2, val |-> Val2a, other |-> Val2b] }

\* the separable two-point set X = [[0], [10]], y = [0, 1]
TrainToy == Arr(<<2, 2>>, <<0, 0, 1000, 10000>>)

\* the kernel once cells 3 and 4 have run, the split having produced
\* data_train and data_val.  Cells 8 to 19 read the four arrays of the split
\* and never the number of rows held out, and the arrays drawn below are
\* short; SplitSpec runs cells 3 and 4 themselves on files of up to
\* ValSize + RowSlack rows.
AfterSplit(seed, data_train, data_val) ==
  [Fresh(seed) EXCEPT
     !.pc = "c8",
     !.data = Arr(<<data_train.shape[1] + data_val.shape[1], data_train.shape[2]>>,
                  data_train.data \o data_val.data),
     !.shuffle = Arange(data_train.shape[1] + data_val.shape[1]),
     !.data_train = data_train, !.data_val = data_val,
     !.X_train = ColsFrom(data_train, 1), !.Y_train = Col(data_train, 0),
     !.X_val = ColsFrom(data_val, 1), !.Y_val = Col(data_val, 0),
     !.out = <<Vec(<<data_train.shape[1], data_val.shape[1]>>)>>]

NoCall == [op |-> "none"]

Init ==
  \E seed \in Seeds, ds \in Datasets :
    /\ env = AfterSplit(seed, ds.train, ds.val)
    /\ shadow = AfterSplit(seed, ds.train, ds.other)
    /\ call = NoCall

RunCell8Init == env.pc = "c8" /\ Step(Cell8Init, "c8")

RunCell8For == env.pc = "c8_for" /\ Step(Cell8For, "c8_for")

RunCell8Diff == env.pc = "c8_diff" /\ Step(Cell8Diff, "c8_diff")

RunCell8Theta == env.pc = "c8_theta" /\ Step(Cell8Theta, "c8_theta")

RunCell8Loss == env.pc = "c8_loss" /\ Step(Cell8Loss, "c8_loss")

RunCell8TrainAcc == env.pc = "c8_tacc" /\ Step(Cell8TrainAcc, "c8_tacc")

RunCell8ValAcc == env.pc = "c8_vacc" /\ Step(Cell8ValAcc, "c8_vacc")

RunCell9 == env.pc = "c9" /\ Step(Cell9, "c9")

RunCell10 == env.pc = "c10" /\ Step(Cell10, "c10")

RunCell12 == env.pc = "c12" /\ Step(Cell12, "c12")

RunCell13Init == env.pc = "c13" /\ Step(Cell13Init, "c13")

RunCell13For == env.pc = "c13_for" /\ Step(Cell13For, "c13_for")

RunCell13Diff == env.pc = "c13_diff" /\ Step(Cell13Diff, "c13_diff")

RunCell13Theta == env.pc = "c13_theta" /\ Step(Cell13Theta, "c13_theta")

RunCell13Loss == env.pc = "c13_loss" /\ Step(Cell13Loss, "c13_loss")

RunCell13TrainAcc == env.pc = "c13_tacc" /\ Step(Cell13TrainAcc, "c13_tacc")

RunCell13TestAcc == env.pc = "c13_teacc" /\ Step(Cell13TestAcc, "c13_teacc")

RunCell14 == env.pc = "c14" /\ Step(Cell14, "c14")

RunCell15 == env.pc = "c15" /\ Step(Cell15, "c15")

RunCell17 == env.pc = "c17" /\ Step(Cell17, "c17")

RunCell19 == env.pc = "c19" /\ Step(Cell19, "c19")

Next ==
  \/ RunCell8Init
  \/ RunCell8For
  \/ RunCell8Diff
  \/ RunCell8Theta
  \/ RunCell8Loss
  \/ RunCell8TrainAcc
  \/ RunCell8ValAcc
  \/ RunCell9
  \/ RunCell10
  \/ RunCell12
  \/ RunCell13Init
  \/ RunCell13For
  \/ RunCell13Diff
  \/ RunCell13Theta
  \/ RunCell13Loss
  \/ RunCell13TrainAcc
  \/ RunCell13TestAcc
  \/ RunCell14
  \/ RunCell15
  \/ RunCell17
  \/ RunCell19

Spec == Init /\ [][Next]_vars

\* the notebook's run stops only when its last cell has run
\* the cells are run in order and no run of a cell is put off for ever; one
\* drawing of np.random, on the first data set
LiveInit ==
  \E seed \in {s \in Seeds : s.shuffle.rot = 0},
     ds \in {d \in Datasets : d.train = Train1} :
    /\ env = AfterSplit(seed, ds.train, ds.val)
    /\ shadow = AfterSplit(seed, ds.train, ds.other)
    /\ call = NoCall

LiveSpec == LiveInit /\ [][Next]_vars /\ WF_vars(Next)

\* ------------------------------------------------------------------------
\* training on the separable two-point set
\* ------------------------------------------------------------------------

ToyInit ==
  \E seed \in Seeds :
    /\ env = AfterSplit(seed, TrainToy, Val1a)
    /\ shadow = AfterSplit(seed, TrainToy, Val1b)
    /\ call = NoCall

ToySpec == ToyInit /\ [][Next]_vars

\* ------------------------------------------------------------------------
\* loading and splitting (cells 3 and 4), up to the first training iterations
\* ------------------------------------------------------------------------

RowSlack == 3

MaxSplitIters == 1

\* a csv file of n rows: the label, then one feature that differs in every row
File(n) ==
  Arr(<<n, 2>>,
      Tab(LAMBDA k : IF (k - 1) % 2 = 0 THEN Num(((k - 1) \div 2) % 2)
                     ELSE (k - 1) \div 2,
          2 * n))

RowCounts == (1..RowSlack) \cup ((ValSize - RowSlack)..(ValSize + RowSlack))

RunCell3 ==
  \E n \in RowCounts :
    LET Load(e) == Cell3(e, File(n)) IN env.pc = "c3" /\ Step(Load, "c3")

RunCell4 == env.pc = "c4" /\ Step(Cell4, "c4")

RunCell8First ==
  env.pc = "c8_for" /\ env.iter < MaxSplitIters /\ Step(Cell8For, "c8_for")

SplitInit ==
  \E seed \in Seeds :
    /\ env = Fresh(seed)
    /\ shadow = Fresh(seed)
    /\ call = NoCall

SplitNext ==
  \/ RunCell3
  \/ RunCell4
  \/ RunCell8Init
  \/ RunCell8First
  \/ RunCell8Diff
  \/ RunCell8Theta
  \/ RunCell8Loss
  \/ RunCell8TrainAcc
  \/ RunCell8ValAcc

SplitSpec == SplitInit /\ [][SplitNext]_vars

\* ------------------------------------------------------------------------
\* calling gradient, loss and accuracy on arguments of any dimensions
\* ------------------------------------------------------------------------

MaxUpdates == 2

FnX ==
  { Arr(<<2, 1>>, <<0, 10000>>),
    Arr(<<3, 2>>, <<1000, 2000, -1000, 500, 0, 1000>>),
    Arr(<<2, 2>>, <<500, -500, -2000, 1000>>),
    Arr(<<1, 2>>, <<1000, 1000>>) }

FnY == { Vec(<<1000>>), Vec(<<0, 1000>>), Vec(<<1000, 0, 1000>>) }

FnW == { Vec(<<-300>>), Vec(<<100, -200>>), Vec(<<0, 400>>) }

FnNorm == {None, "l1", "l2"}

FnLamb == {0, 100}

\* no notebook cell runs here
NoSeed == [shuffle |-> [rot |-> 0, rev |-> FALSE], normal |-> <<>>]

\* the arguments of the calls, before any call
FnInit ==
  \E X \in FnX, y \in FnY, w \in FnW, norm \in FnNorm, lamb \in FnLamb :
    /\ env = Fresh(NoSeed)
    /\ shadow = Fresh(NoSeed)
    /\ call = [op |-> "none", X |-> X, y |-> y, w |-> w, norm |-> norm,
               lamb |-> Scalar(lamb), onept |-> FALSE, row |-> 0, before |-> w,
               reg |-> Undef, res |-> Undef, updates |-> 0]

\* gradient(X, y, w, norm=norm, lamb=lamb)
CallGradient ==
  /\ call' = [call EXCEPT !.op = "gradient", !.onept = FALSE, !.row = 0,
                          !.reg = RegTerm(call.w, call.norm, call.lamb),
                          !.res = gradient(call.X, call.y, call.w, FALSE,
                                           call.norm, call.lamb)]
  /\ UNCHANGED <<env, shadow>>

\* gradient(X[r], y[r], w, onept=True, norm=norm, lamb=lamb)
CallGradientPoint ==
  \E r \in 0..(call.X.shape[1] - 1) :
    /\ call' = [call EXCEPT !.op = "gradient", !.onept = TRUE, !.row = r,
                            !.reg = RegTerm(call.w, call.norm, call.lamb),
                            !.res = gradient(Index(call.X, r), Index(call.y, r),
                                             call.w, TRUE, call.norm, call.lamb)]
    /\ UNCHANGED <<env, shadow>>

\* loss(X, y, w, norm=norm, lamb=lamb)
CallLoss ==
  /\ call' = [call EXCEPT !.op = "loss", !.onept = FALSE, !.row = 0,
                          !.res = loss(call.X, call.y, call.w, call.norm, call.lamb)]
  /\ UNCHANGED <<env, shadow>>

\* accuracy(X, y, w)
CallAccuracy ==
  /\ call' = [call EXCEPT !.op = "accuracy", !.onept = FALSE, !.row = 0,
                          !.res = accuracy(call.X, call.y, call.w)]
  /\ UNCHANGED <<env, shadow>>

\* diff = epsilon * gradient(...); theta = theta - diff, for either kind of
\* gradient; an exception leaves theta as it was
Update(onept, r) ==
  LET Assign(theta) ==
        [call EXCEPT !.op = "update", !.onept = onept, !.row = r,
                     !.before = call.w,
                     !.w = IF Failed(theta) THEN call.w ELSE theta,
                     !.res = theta, !.updates = @ + 1]
  IN  /\ call.updates < MaxUpdates
      /\ call' = Bind(Sub(call.w,
                          Mul(Scalar(Epsilon8),
                              IF onept
                              THEN gradient(Index(call.X, r), Index(call.y, r),
                                            call.w, TRUE, call.norm, call.lamb)
                              ELSE gradient(call.X, call.y, call.w, FALSE,
                                            call.norm, call.lamb))),
                      Assign)
      /\ UNCHANGED <<env, shadow>>

UpdateBatch == Update(FALSE, 0)

UpdatePoint == \E r \in 0..(call.X.shape[1] - 1) : Update(TRUE, r)

FnNext ==
  \/ CallGradient
  \/ CallGradientPoint
  \/ CallLoss
  \/ CallAccuracy
  \/ UpdateBatch
  \/ UpdatePoint

FnSpec == FnInit /\ [][FnNext]_vars

\* ------------------------------------------------------------------------
\* properties
\* ------------------------------------------------------------------------

Lists == {"losses", "train_accuracies", "validation_accuracies", "test_accuracies"}

Last(q) == q[Len(q)]

Min(a, b) == IF a <= b THEN a ELSE b

\* C1: in every iteration the gradient is taken over the whole training set
\* at the current theta, theta is then updated, and only then are the loss
\* and the accuracies appended: the k-th entry of every list of the running
\* training run was computed from theta after exactly k updates (k >= 1).
C1_RecordedAfterUpdate ==
  /\ \A name \in Lists :
       (env.owner[name] = env.run /\ Len(env[name]) > 0)
         => env.ver[name] = Len(env[name]) /\ env.ver[name] >= 1
  /\ env.pc = "c8_theta"
       => /\ env.wver = env.i
          /\ env.diff = Mul(Scalar(env.epsilon),
                            gradient(env.X_train, env.Y_train, env.theta, FALSE,
                                     None, Scalar(0)))
  /\ env.pc = "c13_theta"
       => /\ env.wver = env.i
          /\ env.diff = Mul(Scalar(env.epsilon),
                            gradient(env.X_train_small, env.Y_train_small, env.theta,
                                     FALSE, None, Scalar(0)))
  /\ env.pc \in {"c8_loss", "c13_loss"}
       => env.wver = env.i + 1 /\ Len(env.losses) = env.i
  /\ env.pc = "c8_tacc"
       => Last(env.losses) = ToFloat(loss(env.X_train, env.Y_train, env.theta,
                                          None, Scalar(0)))
  /\ env.pc = "c13_tacc"
       => Last(env.losses) = ToFloat(loss(env.X_train_small, env.Y_train_small,
                                          env.theta, None, Scalar(0)))

\* the first training run is over and its last loss was recorded after the
\* last of its updates
C1_Witness ==
  /\ env.pc = "c9"
  /\ env.errors = <<>>
  /\ env.wver = NumIterations8
  /\ env.ver.losses = NumIterations8
  /\ env.ver.validation_accuracies = NumIterations8

\* C2: a training run of N iterations ends after exactly N updates of theta,
\* whatever was recorded, and the lists it created then hold N entries each;
\* the notebook runs on to its last cell.
C2_TerminatesAfterN ==
  /\ <>(env.pc = "end")
  /\ [](env.pc = "c9"
          => /\ env.wver = NumIterations8
             /\ Len(env.losses) = NumIterations8
             /\ Len(env.train_accuracies) = NumIterations8
             /\ Len(env.validation_accuracies) = NumIterations8)
  /\ [](env.pc = "c14"
          => /\ env.wver = NumIterations13
             /\ Len(env.losses) = NumIterations13
             /\ Len(env.train_accuracies) = NumIterations13
             /\ Len(env.test_accuracies) = NumIterations13)

\* the second training run is over, with loss values that changed on the way
C2_Witness ==
  /\ env.pc = "c14"
  /\ env.wver = NumIterations13
  /\ Len(env.test_accuracies) = NumIterations13
  /\ env.losses[1] # Last(env.losses)

\* C4: two runs from the same initial theta on the same training set, with
\* different validation sets, have the same theta after every step and the
\* same losses and training accuracies.
C4_ValidationSetIgnored ==
  /\ env.theta = shadow.theta
  /\ env.diff = shadow.diff
  /\ env.losses = shadow.losses
  /\ env.train_accuracies = shadow.train_accuracies

\* both runs are over, their validation sets and the validation accuracies
\* they recorded differ
C4_Witness ==
  /\ env.pc = "c9"
  /\ env.wver = NumIterations8
  /\ env.X_val # shadow.X_val
  /\ env.validation_accuracies # shadow.validation_accuracies

\* C10: every series handed to plt.plot has as many entries as
\* num_iterations and was created by the latest training run.
C10_PlotsAreCurrent ==
  \A k \in 1..Len(env.plots) :
    /\ env.plots[k].y = env.plots[k].x
    /\ env.plots[k].owner = env.plots[k].run

ConvergeBound == 3

\* C9: on the two-point set, from every initial theta drawn, the training
\* accuracy is 1.0 from entry ConvergeBound on, and once it is 1.0 it stays.
C9_ToyConverges ==
  env.owner.train_accuracies = env.run =>
    /\ Len(env.train_accuracies) >= ConvergeBound
         => Last(env.train_accuracies) = Num(1)
    /\ (Len(env.train_accuracies) >= 2
        /\ env.train_accuracies[Len(env.train_accuracies) - 1] = Num(1))
         => Last(env.train_accuracies) = Num(1)

\* a run that began below accuracy 1.0 and ended at 1.0
C9_Witness ==
  /\ env.pc = "c9"
  /\ Len(env.train_accuracies) = NumIterations8
  /\ env.train_accuracies[1] < Num(1)
  /\ Last(env.train_accuracies) = Num(1)

\* the rows of a one-feature matrix, by their feature
Ids(X) == {X.data[k] : k \in 1..Len(X.data)}

SplitDone == env.pc \notin {"c3", "c4"}

\* the held-out rows and the training rows are disjoint and are all the rows
Partitioned ==
  /\ Ids(env.X_train) \cap Ids(env.X_val) = {}
  /\ Ids(env.X_train) \cup Ids(env.X_val) = Ids(ColsFrom(env.data, 1))
  /\ Cardinality(Ids(env.X_train)) = env.X_train.shape[1]
  /\ Cardinality(Ids(env.X_val)) = env.X_val.shape[1]
  /\ SizeOf(env.Y_train) = env.X_train.shape[1]
  /\ SizeOf(env.Y_val) = env.X_val.shape[1]

\* C3 as stated: whatever the number of rows, the split is a partition with
\* exactly ValSize validation rows, done before the first training iteration.
C3_SplitExactlyValSize ==
  /\ env.iter > 0 => SplitDone
  /\ SplitDone
       => /\ Partitioned
          /\ env.X_val.shape[1] = ValSize
          /\ env.X_train.shape[1] = env.data.shape[1] - ValSize

\* C3 amended: the split is a partition with min(rows, ValSize) validation
\* rows and the other rows for training, done before the first training
\* iteration.
C3_SplitAtMostValSize ==
  /\ env.iter > 0 => SplitDone
  /\ SplitDone
       => /\ Partitioned
          /\ env.X_val.shape[1] = Min(env.data.shape[1], ValSize)
          /\ env.X_train.shape[1]
               = env.data.shape[1] - Min(env.data.shape[1], ValSize)

\* a file shorter than ValSize was split and the first iteration began
C3_Witness ==
  /\ env.iter > 0
  /\ env.data.shape[1] < ValSize
  /\ env.X_val.shape[1] = env.data.shape[1]
  /\ env.X_train.shape[1] = 0

IsVector(a) == ~Failed(a) /\ Rank(a) = 1

\* X, y and w fit: as many labels as rows, as many weights as columns
Consistent(X, y, w) ==
  /\ IsVector(w) /\ IsVector(y)
  /\ X.shape[1] = SizeOf(y)
  /\ X.shape[2] = SizeOf(w)

\* C5: gradient, batch or single point, returns an array shaped like w, and
\* after an update w still has one weight per column of X.
C5_GradientShapedLikeW ==
  /\ (call.op = "gradient" /\ Consistent(call.X, call.y, call.w))
       => ~Failed(call.res) /\ call.res.shape = call.w.shape
  /\ (call.op = "update" /\ Consistent(call.X, call.y, call.before))
       => call.w.shape = <<call.X.shape[2]>>

\* the unregularized batch gradient -X^T (y - sigmoid(X w)) / n, entry by entry
RefSigmoid(X, w, i) ==
  FDiv(Num(1),
       FAdd(Num(1),
            FExp(FNeg(SumTo(Tab(LAMBDA j : FMul(X.data[(i - 1) * X.shape[2] + j],
                                               w.data[j]),
                                X.shape[2]),
                            X.shape[2])))))

RefBatchGradient(X, y, w) ==
  Vec(Tab(LAMBDA j :
            FDiv(FNeg(SumTo(Tab(LAMBDA i : FMul(X.data[(i - 1) * X.shape[2] + j],
                                               FSub(y.data[i], RefSigmoid(X, w, i))),
                                X.shape[1]),
                            X.shape[1])),
                 Num(X.shape[1])),
          X.shape[2]))

\* C6: a batch call without regularization returns the unregularized batch
\* gradient, and a batch call with norm l2 and lamb 0 returns what the call
\* without regularization returns.
C6_L2ZeroIsUnregularized ==
  /\ (call.op = "gradient" /\ ~call.onept /\ call.norm = None
      /\ Consistent(call.X, call.y, call.w))
       => call.res = RefBatchGradient(call.X, call.y, call.w)
  /\ (call.op = "gradient" /\ ~call.onept /\ call.norm = "l2"
      /\ call.lamb = Scalar(0) /\ IsVector(call.w))
       => call.res = gradient(call.X, call.y, call.w, FALSE, None, Scalar(0))

\* a batch call with norm l2 and lamb 0 returned a gradient that is not zero
C6_Witness ==
  /\ call.op = "gradient" /\ ~call.onept
  /\ call.norm = "l2" /\ call.lamb = Scalar(0)
  /\ Consistent(call.X, call.y, call.w)
  /\ ~Failed(call.res)
  /\ \E k \in 1..Len(call.res.data) : call.res.data[k] # 0

\* what the selector asks to be added to the base term
ExpectedReg(w, norm, lamb) ==
  IF norm = "l1"
    THEN Vec(Tab(LAMBDA k : FMul(lamb.data[1], Num(Sgn(w.data[k]))), Len(w.data)))
  ELSE IF norm = "l2"
    THEN Vec(Tab(LAMBDA k : FMul(2 * lamb.data[1], w.data[k]), Len(w.data)))
  ELSE Scalar(0)

\* C7: what gradient adds to the base term is lamb * sign(w) for l1,
\* 2 * lamb * w for l2 and nothing for none, and one of the three applies.
C7_RegularizationBySelector ==
  (call.op = "gradient" /\ IsVector(call.w))
    => /\ call.norm \in {None, "l1", "l2"}
       /\ call.reg = ExpectedReg(call.w, call.norm, call.lamb)
       /\ ~Failed(call.res)
            => call.res
                 = Add(ExpectedReg(call.w, call.norm, call.lamb),
                       IF call.onept
                       THEN PointTerm(Index(call.X, call.row), Index(call.y, call.row),
                                      call.w)
                       ELSE BatchTerm(call.X, call.y, call.w))

\* an l1 call with lamb > 0 on a w with a negative weight returned
C7_Witness ==
  /\ call.op = "gradient" /\ ~call.onept
  /\ call.norm = "l1" /\ call.lamb.data[1] > 0
  /\ Consistent(call.X, call.y, call.w)
  /\ \E k \in 1..Len(call.w.data) : call.w.data[k] < 0
  /\ ~Failed(call.res)

\* C8: gradient, loss and accuracy raise when the rows of X and the labels,
\* or the columns of X and the weights, do not fit, and then nothing is
\* updated.
C8_InconsistentDimensionsRaise ==
  /\ (call.op \in {"gradient", "loss", "accuracy"} /\ ~call.onept
      /\ IsVector(call.w) /\ ~Consistent(call.X, call.y, call.w))
       => Failed(call.res)
  /\ (call.op = "update" /\ ~call.onept /\ IsVector(call.before)
      /\ ~Consistent(call.X, call.y, call.before))
       => call.w = call.before

====
